---- MODULE Spec2Model ----
(***************************************************************************)
(* Model of the upload path of the b2 client: Bucket.Upload (checksum      *)
(* strategy and retry loop), Bucket.UploadWithSHA1 (one transfer),         *)
(* Bucket.getUploadURL / Bucket.putUploadURL (the per-bucket pool of       *)
(* upload URLs guarded by uploadURLsMu).                                   *)
(*                                                                         *)
(* Each process is one goroutine calling Upload or UploadWithSHA1.  The    *)
(* server, the network and the reader handed in are the environment: their *)
(* outcomes are chosen nondeterministically.                               *)
(*                                                                         *)
(* The module also models a Listing (Bucket.ListFiles, ListFileVersions,   *)
(* Listing.SetPageCount / Next / FileInfo / Err) read by one caller from a *)
(* server that holds a fixed, sorted store of file versions, and a         *)
(* download (Client.DownloadFile, DownloadFileByID, DownloadFileByName      *)
(* through Client.getWithAuth) made by one caller, GetFileInfoByName, and  *)
(* the session snapshot Client.loginInfo under concurrent refreshes.       *)
(***************************************************************************)
EXTENDS Integers, Sequences, FiniteSets, TLC

\* ---------------------------------------------------------------- bounds
\* longest content of a source
MaxLen == 2
\* 401 answers the server gives to one call
MaxAuthFails == 2
\* b2_get_upload_url requests the server answers while calls run concurrently
MaxRequests == 2
\* b2_get_upload_url requests the server answers to a caller that retries
MaxRetryRequests == 6
\* file names held by the server: 1..MaxNames
MaxNames == 2
\* list requests answered for one Listing
MaxListRequests == 4
\* Next calls of one Listing that return false
MaxFalse == 2
\* FileInfo calls between two Next calls
MaxInfo == 2
\* Range.Begin and Range.End are drawn from -1..MaxOff
MaxOff == 3
\* authentications the server answers
MaxAuths == 3

\* ------------------------------------------------------ program constants
RetryBudget == 5
StatusUnauthorized == 401

Procs == {"p1", "p2"}
Buckets == {"b1", "b2"}

\* Two byte values are enough to tell contents apart.
Byte == {0, 1}

RECURSIVE SeqsUpTo(_)
SeqsUpTo(n) ==
    IF n = 0 THEN {<<>>}
    ELSE LET shorter == SeqsUpTo(n - 1)
         IN  shorter \cup {Append(s, x) : s \in {t \in shorter : Len(t) = n - 1}, x \in Byte}

Contents == SeqsUpTo(MaxLen)

\* The three shapes of reader Upload distinguishes, each at any read offset.
Sources ==
    {[kind |-> k, data |-> d, off |-> o] :
        k \in {"buffer", "seeker", "reader"}, d \in Contents, o \in 0..MaxLen}
    \cap {s \in [kind : {"buffer", "seeker", "reader"}, data : Contents, off : 0..MaxLen] :
            s.off <= Len(s.data)}

\* The sources used when calls run concurrently: one content, unread.
PlainSources ==
    {s \in Sources : s.kind \in {"seeker", "reader"} /\ s.data = <<0, 1>> /\ s.off = 0}

\* ------------------------------------------------------------------ values
NoErr == "nil"
ApiErrors == {"E401", "E500"}
TransportErrors == {"ENet", "ECanceled"}
RequestErrors == ApiErrors \cup TransportErrors
\* The errors of an attempt: those of a request and an undecodable answer.
AttemptErrors == RequestErrors \cup {"EDecode"}
\* One error of each kind the loop of Upload tells apart.
FewErrors == {"E401", "ENet"}

NoLease == [bucket |-> "none", n |-> 0]
NoFile == [nil |-> TRUE]
NoReq == [nil |-> TRUE]
NoSource == [kind |-> "none", data |-> <<>>, off |-> 0]
NoBody == [data |-> <<>>, pos |-> 0]

Min(a, b) == IF a < b THEN a ELSE b

\* crypto/sha1 + hex: modelled as an injective function of the bytes hashed.
SHA1(bytes) == <<"sha1", bytes>>

\* UnwrapError: ok only for an API error, which carries an HTTP status.
UnwrapError(e) == e \in ApiErrors
Status(e) == IF e = "E401" THEN 401 ELSE 500
\* Any API error taken for an expired authorization.
IsUnauthorizedAnyStatus(e) == UnwrapError(e)

\* Upload, line 61: the test that sends the loop to login.
IsUnauthorized(e) == UnwrapError(e) /\ Status(e) = StatusUnauthorized

Rest(data, pos) == SubSeq(data, pos + 1, Len(data))

\* A *string: nil, or a pointer to the value v.  The empty string and the
\* absent file ID are 0, names and IDs are positive numbers.
NilPtr == [nil |-> TRUE, v |-> 0]
Ptr(v) == [nil |-> FALSE, v |-> v]

\* ListOptions of the call that made the Listing; NoOpts before any call.
NoOpts == [call |-> "none", FromName |-> 0, FromID |-> 0]
\* The zero Listing.
NoListing ==
    [versions |-> FALSE, nextPageCount |-> 0, nextName |-> NilPtr,
     nextID |-> NilPtr, objects |-> <<>>, err |-> NoErr]

\* The zero DownloadOptions; the empty string is 0.
NoDownload ==
    [FileID |-> 0, Bucket |-> 0, FileName |-> 0,
     Range |-> [Begin |-> 0, End |-> 0]]
\* No URL built.
NoURL == [by |-> "none"]

\* The LoginInfo of the n-th authentication: token and URLs of one answer.
LoginInfoOf(n) == [AuthorizationToken |-> n, APIURL |-> n, DownloadURL |-> n]

VARIABLES
    pc,            \* position of each process
    kind,          \* "Upload" or "UploadWithSHA1": the call the process is in
    bkt,           \* the Bucket the call is made on
    r,             \* the reader handed to Upload
    body,          \* the io.ReadSeeker Upload transmits from
    sha1Sum,       \* hex SHA1 computed by Upload (or given by the caller)
    length,        \* length computed by Upload (or given by the caller)
    i,             \* loop counter of Upload
    uurl,          \* the upload URL held by the running UploadWithSHA1
    fi,            \* FileInfo result of the call
    err,           \* error result of the call
    sent,          \* the last transfer request of the call
    uploadURLs,    \* Bucket.uploadURLs
    uploadURLsMu,  \* Bucket.uploadURLsMu: "free" or the holder
    reqCount,      \* b2_get_upload_url requests issued per bucket
    attempts,      \* UploadWithSHA1 invocations of the call
    authFails,     \* attempts of the call that failed with status 401
    otherFails,    \* attempts of the call that failed otherwise
    logins,        \* session refreshes made by the call
    transfers,     \* transfer requests of the running UploadWithSHA1
    urlCalls,      \* getUploadURL invocations of the running UploadWithSHA1
    failedLeases,  \* upload URLs used by a failed attempt
    failedOn,      \* buckets on which an attempt has failed
    erroredOn      \* buckets on which a call has returned an error

VARIABLES
    l,             \* the Listing: its fields versions, nextPageCount, nextName,
                   \* nextID, objects, err
    opts,          \* the ListOptions the Listing was made from
    op,            \* the last operation called on the Listing
    lastNext,      \* result of the last Next call: "none", "true", "false"
    got,           \* result of the last FileInfo call
    nreqs,         \* the number of list requests sent for the Listing
    lastReq,       \* the last list request sent for the Listing
    fetched,       \* the Files of the pages received, concatenated
    yielded,       \* the records Next has made available, in order
    nfalse,        \* Next calls of the Listing that returned false
    ninfo          \* FileInfo calls since the last Next call

VARIABLES
    dpc,           \* position of the download call
    dcall,         \* the download function called
    dopts,         \* the DownloadOptions o of DownloadFile
    U,             \* the URL the call has built
    rs,            \* the Range header value the call has built
    gets,          \* the GET requests the call has sent, in order
    refreshes,     \* session refreshes made by the call
    first,         \* outcome of the first GET of the call
    refreshed,     \* outcome of the session refresh of the call
    second,        \* outcome of the second GET of the call
    derr           \* the error the call has returned

uploadVars == <<pc, kind, bkt, r, body, sha1Sum, length, i, uurl, fi, err, sent,
                uploadURLs, uploadURLsMu, reqCount, attempts, authFails,
                otherFails, logins, transfers, urlCalls, failedLeases, failedOn,
                erroredOn>>
listVars == <<l, opts, op, lastNext, got, nreqs, lastReq, fetched, yielded,
              nfalse, ninfo>>

dlVars == <<dpc, dcall, dopts, U, rs, gets, refreshes, first, refreshed, second,
            derr>>

VARIABLES
    gpc,           \* position of the GetFileInfoByName call
    gname,         \* the name GetFileInfoByName is called with
    gfi,           \* the FileInfo the caller got from GetFileInfoByName
    gerr           \* the error the caller got from GetFileInfoByName

infoVars == <<gpc, gname, gfi, gerr>>

VARIABLES
    loginInfo,     \* Client.loginInfo: the session snapshot in force
    auths,         \* authentications the server has answered
    spc,           \* position of each process in a session refresh
    resp,          \* the LoginInfo each refreshing process has built
    seen           \* the snapshot each process has loaded last

sessVars == <<loginInfo, auths, spc, resp, seen>>

vars == <<uploadVars, listVars, dlVars, infoVars, sessVars>>

\* What the steps of one part of the client leave alone.
notUpload == <<listVars, dlVars, infoVars, sessVars>>
notListing == <<uploadVars, dlVars, infoVars, sessVars>>
notDownload == <<uploadVars, listVars, infoVars, sessVars>>
notSession == <<uploadVars, listVars, dlVars, infoVars>>

procVars == <<kind, bkt, r, body, sha1Sum, length, i, uurl, fi, err, sent>>
histVars == <<attempts, authFails, otherFails, logins, transfers, urlCalls>>
poolVars == <<uploadURLs, uploadURLsMu, reqCount>>
ghostVars == <<failedLeases, failedOn, erroredOn>>

Init ==
    /\ pc = [p \in Procs |-> "idle"]
    /\ kind = [p \in Procs |-> "none"]
    /\ bkt = [p \in Procs |-> "none"]
    /\ r = [p \in Procs |-> NoSource]
    /\ body = [p \in Procs |-> NoBody]
    /\ sha1Sum = [p \in Procs |-> SHA1(<<>>)]
    /\ length = [p \in Procs |-> 0]
    /\ i = [p \in Procs |-> 0]
    /\ uurl = [p \in Procs |-> NoLease]
    /\ fi = [p \in Procs |-> NoFile]
    /\ err = [p \in Procs |-> NoErr]
    /\ sent = [p \in Procs |-> NoReq]
    /\ uploadURLs = [b \in Buckets |-> <<>>]
    /\ uploadURLsMu = [b \in Buckets |-> "free"]
    /\ reqCount = [b \in Buckets |-> 0]
    /\ attempts = [p \in Procs |-> 0]
    /\ authFails = [p \in Procs |-> 0]
    /\ otherFails = [p \in Procs |-> 0]
    /\ logins = [p \in Procs |-> 0]
    /\ transfers = [p \in Procs |-> 0]
    /\ urlCalls = [p \in Procs |-> 0]
    /\ failedLeases = {}
    /\ failedOn = {}
    /\ erroredOn = {}
    /\ l = NoListing
    /\ opts = NoOpts
    /\ op = "none"
    /\ lastNext = "none"
    /\ got = NoFile
    /\ nreqs = 0
    /\ lastReq = NoReq
    /\ fetched = <<>>
    /\ yielded = <<>>
    /\ nfalse = 0
    /\ ninfo = 0
    /\ dpc = "idle"
    /\ dcall = "none"
    /\ dopts = NoDownload
    /\ U = NoURL
    /\ rs = <<>>
    /\ gets = <<>>
    /\ refreshes = 0
    /\ first = "none"
    /\ refreshed = "none"
    /\ second = "none"
    /\ derr = NoErr
    /\ gpc = "idle"
    /\ gname = 0
    /\ gfi = NoFile
    /\ gerr = NoErr
    /\ loginInfo = LoginInfoOf(0)
    /\ auths = 0
    /\ spc = [p \in Procs |-> "idle"]
    /\ resp = [p \in Procs |-> LoginInfoOf(0)]
    /\ seen = [p \in Procs |-> LoginInfoOf(0)]


\* ------------------------------------------------------- pure helpers
\* Upload, lines 28-42: the body Upload reads from, for a source whose read
\* succeeded.  A bytes.Buffer gives a bytes.Reader over its unread bytes, a
\* seeker is used as it is (at the position it is handed in), anything else
\* is read to its end into memory.
BodyOf(s) ==
    IF s.kind = "seeker"
    THEN [data |-> s.data, pos |-> s.off]
    ELSE [data |-> Rest(s.data, s.off), pos |-> 0]

\* What is left of the caller's reader once the body is built.
SourceAfterRead(s) ==
    IF s.kind = "reader" THEN [s EXCEPT !.off = Len(s.data)] ELSE s

\* The deferred Reset left out.
SourceAtReturnNoReset(s) == s

\* defer r.Reset() (line 31), run when Upload returns.
SourceAtReturn(s) ==
    IF s.kind = "buffer" THEN [s EXCEPT !.data = <<>>, !.off = 0] ELSE s

\* io.Copy(h, body), lines 44-49: hashes from the current position to the end.
HashedBytes(b) == Rest(b.data, b.pos)

\* body.Seek(0, io.SeekStart), line 53.
SeekStart(b) == [b EXCEPT !.pos = 0]

\* A budget of one turn less, and of one turn more.
LoopContinuesShort(iv) == iv < RetryBudget - 1
LoopContinuesLong(iv) == iv < RetryBudget + 1

\* The loop condition of Upload, line 52.
LoopContinues(iv) == iv < RetryBudget

\* hc.Do with req.ContentLength = n: the transport writes at most n bytes of
\* the body, read from the body's current position.
BytesSent(b, n) == SubSeq(b.data, b.pos + 1, Min(b.pos + n, Len(b.data)))

\* The transport fails a request whose body does not hold exactly
\* ContentLength bytes.
WellFramed(b, n) == Len(b.data) - b.pos = n

\* The oldest element handed out instead of the newest.
PoolTopOldest(pool) == pool[1]

\* getUploadURL, line 81: the element handed out.
PoolTop(pool) == pool[Len(pool)]

\* The element handed out is left in the pool.
PoolAfterPopKept(pool) == pool

\* getUploadURL, line 82: what stays in the pool.
PoolAfterPop(pool) == SubSeq(pool, 1, Len(pool) - 1)

\* The upload URL appended twice, and not at all.
PoolAfterPutTwice(pool, u) == Append(Append(pool, u), u)
PoolAfterPutDropped(pool, u) == pool

\* putUploadURL, line 103.
PoolAfterPut(pool, u) == Append(pool, u)

\* fileInfoObj.makeFileInfo of the server's answer to a transfer.
FileInfoOf(req) == [ContentLength |-> req.clen, ContentSHA1 |-> req.sha1]

\* The seeker the caller still holds is the body itself.
CallerPos(p) == IF r[p].kind = "seeker" THEN body[p].pos ELSE r[p].off

Active(p) == pc[p] \notin {"idle", "done"}

RECURSIVE SumOver(_, _)
SumOver(f, S) ==
    IF S = {} THEN 0
    ELSE LET x == CHOOSE y \in S : TRUE IN f[x] + SumOver(f, S \ {x})

TotalRequests == SumOver(reqCount, Buckets)

\* ------------------------------------------------------------- actions
ResetHistory(p, n) ==
    /\ attempts' = [attempts EXCEPT ![p] = n]
    /\ authFails' = [authFails EXCEPT ![p] = 0]
    /\ otherFails' = [otherFails EXCEPT ![p] = 0]
    /\ logins' = [logins EXCEPT ![p] = 0]
    /\ transfers' = [transfers EXCEPT ![p] = 0]
    /\ urlCalls' = [urlCalls EXCEPT ![p] = 0]

\* Upload returns (f, e) before or after the loop: lines 39, 47, 54, 66, 71.
UploadReturns(p, f, e) ==
    /\ pc' = [pc EXCEPT ![p] = "done"]
    /\ fi' = [fi EXCEPT ![p] = f]
    /\ err' = [err EXCEPT ![p] = e]
    /\ r' = [r EXCEPT ![p] = SourceAtReturn(r[p])]
    /\ erroredOn' = IF e # NoErr THEN erroredOn \cup {bkt[p]} ELSE erroredOn

\* Upload is entered: lines 27-42.
StartUpload(p, b, s) ==
    /\ ~Active(p)
    /\ kind' = [kind EXCEPT ![p] = "Upload"]
    /\ bkt' = [bkt EXCEPT ![p] = b]
    /\ sha1Sum' = [sha1Sum EXCEPT ![p] = SHA1(<<>>)]
    /\ length' = [length EXCEPT ![p] = 0]
    /\ i' = [i EXCEPT ![p] = 0]
    /\ sent' = [sent EXCEPT ![p] = NoReq]
    /\ ResetHistory(p, 0)
    /\ \/ /\ body' = [body EXCEPT ![p] = BodyOf(s)]
          /\ r' = [r EXCEPT ![p] = SourceAfterRead(s)]
          /\ pc' = [pc EXCEPT ![p] = "hash"]
          /\ fi' = [fi EXCEPT ![p] = NoFile]
          /\ err' = [err EXCEPT ![p] = NoErr]
          /\ UNCHANGED erroredOn
       \/ /\ s.kind = "reader"              \* io.ReadAll fails
          /\ \E o \in s.off..Len(s.data) :
                r' = [r EXCEPT ![p] = [s EXCEPT !.off = o]]
          /\ body' = [body EXCEPT ![p] = NoBody]
          /\ pc' = [pc EXCEPT ![p] = "done"]
          /\ fi' = [fi EXCEPT ![p] = NoFile]
          /\ err' = [err EXCEPT ![p] = "EIO"]
          /\ erroredOn' = erroredOn \cup {b}
    /\ UNCHANGED <<uurl, poolVars, failedLeases, failedOn>>
    /\ UNCHANGED notUpload

\* Lines 44-49: the SHA1 and the length of what the body still holds.
HashBody(p) ==
    /\ pc[p] = "hash"
    /\ \/ /\ sha1Sum' = [sha1Sum EXCEPT ![p] = SHA1(HashedBytes(body[p]))]
          /\ length' = [length EXCEPT ![p] = Len(HashedBytes(body[p]))]
          /\ body' = [body EXCEPT ![p].pos = Len(body[p].data)]
          /\ pc' = [pc EXCEPT ![p] = "seek"]
          /\ UNCHANGED <<fi, err, r, erroredOn>>
       \/ /\ r[p].kind = "seeker"           \* a read of the seeker fails
          /\ UploadReturns(p, NoFile, "EIO")
          /\ UNCHANGED <<sha1Sum, length, body>>
    /\ UNCHANGED <<kind, bkt, i, uurl, sent, poolVars, histVars, failedLeases, failedOn>>
    /\ UNCHANGED notUpload

\* Lines 52-57: one turn of the loop up to the call of UploadWithSHA1.
SeekBody(p) ==
    /\ pc[p] = "seek"
    /\ \/ /\ body' = [body EXCEPT ![p] = SeekStart(body[p])]
          /\ pc' = [pc EXCEPT ![p] = "uw_lock"]
          /\ attempts' = [attempts EXCEPT ![p] = @ + 1]
          /\ transfers' = [transfers EXCEPT ![p] = 0]
          /\ urlCalls' = [urlCalls EXCEPT ![p] = 0]
          /\ UNCHANGED <<fi, err, r, erroredOn>>
       \/ /\ r[p].kind = "seeker"           \* Seek fails
          /\ UploadReturns(p, NoFile, "EIO")
          /\ UNCHANGED <<body, attempts, transfers, urlCalls>>
    /\ UNCHANGED <<kind, bkt, sha1Sum, length, i, uurl, sent, poolVars,
                   authFails, otherFails, logins, failedLeases, failedOn>>
    /\ UNCHANGED notUpload

\* UploadWithSHA1 called by the user, with the hash and length of what the
\* reader holds.
StartUploadWithSHA1(p, b, s) ==
    /\ ~Active(p)
    /\ kind' = [kind EXCEPT ![p] = "UploadWithSHA1"]
    /\ bkt' = [bkt EXCEPT ![p] = b]
    /\ r' = [r EXCEPT ![p] = NoSource]
    /\ body' = [body EXCEPT ![p] = [data |-> s.data, pos |-> s.off]]
    /\ sha1Sum' = [sha1Sum EXCEPT ![p] = SHA1(Rest(s.data, s.off))]
    /\ length' = [length EXCEPT ![p] = Len(Rest(s.data, s.off))]
    /\ i' = [i EXCEPT ![p] = 0]
    /\ fi' = [fi EXCEPT ![p] = NoFile]
    /\ err' = [err EXCEPT ![p] = NoErr]
    /\ sent' = [sent EXCEPT ![p] = NoReq]
    /\ ResetHistory(p, 1)
    /\ pc' = [pc EXCEPT ![p] = "uw_lock"]
    /\ UNCHANGED <<uurl, poolVars, ghostVars>>
    /\ UNCHANGED notUpload

\* UploadWithSHA1 handled as if every caller were the retry loop.
InRetryLoopAlways(k) == TRUE

\* UploadWithSHA1 is inside the retry loop only when Upload called it, line 57.
InRetryLoop(k) == k = "Upload"

\* UploadWithSHA1 returns (f, e).  When the user called it the call is over;
\* inside Upload the loop goes on at line 58: break on success, login on
\* status 401, otherwise the next turn of the loop (i++ and the test i < 5).
AttemptReturns(p, f, e) ==
    /\ fi' = [fi EXCEPT ![p] = f]
    /\ err' = [err EXCEPT ![p] = e]
    /\ authFails' = [authFails EXCEPT ![p] = IF e = "E401" THEN @ + 1 ELSE @]
    /\ otherFails' = [otherFails EXCEPT
                        ![p] = IF e \notin {NoErr, "E401"} THEN @ + 1 ELSE @]
    /\ failedOn' = IF e # NoErr THEN failedOn \cup {bkt[p]} ELSE failedOn
    /\ IF ~InRetryLoop(kind[p])
       THEN /\ pc' = [pc EXCEPT ![p] = "done"]
            /\ UNCHANGED <<i, r>>
       ELSE IF e = NoErr
       THEN /\ pc' = [pc EXCEPT ![p] = "done"]
            /\ r' = [r EXCEPT ![p] = SourceAtReturn(r[p])]
            /\ UNCHANGED i
       ELSE IF IsUnauthorized(e)
       THEN /\ pc' = [pc EXCEPT ![p] = "login"]
            /\ UNCHANGED <<i, r>>
       ELSE /\ i' = [i EXCEPT ![p] = @ + 1]
            /\ IF LoopContinues(i[p] + 1)
               THEN /\ pc' = [pc EXCEPT ![p] = "seek"]
                    /\ UNCHANGED r
               ELSE /\ pc' = [pc EXCEPT ![p] = "done"]
                    /\ r' = [r EXCEPT ![p] = SourceAtReturn(r[p])]
    /\ erroredOn' = IF pc'[p] = "done" /\ e # NoErr
                    THEN erroredOn \cup {bkt[p]} ELSE erroredOn

\* The server answers 401 to a call at most MaxAuthFails times.
MayFailWith(p, e) == e = "E401" => authFails[p] < MaxAuthFails

\* getUploadURL, line 79: uploadURLsMu.Lock().
GetLock(p) ==
    /\ pc[p] = "uw_lock"
    /\ uploadURLsMu[bkt[p]] = "free"
    /\ uploadURLsMu' = [uploadURLsMu EXCEPT ![bkt[p]] = p]
    /\ urlCalls' = [urlCalls EXCEPT ![p] = @ + 1]
    /\ pc' = [pc EXCEPT ![p] = "uw_pop"]
    /\ UNCHANGED <<procVars, uploadURLs, reqCount, attempts, authFails,
                   otherFails, logins, transfers, ghostVars>>
    /\ UNCHANGED notUpload

\* getUploadURL, line 84, a mutation: the mutex is not released.
UnlockedNot(holder) == holder
\* getUploadURL, line 84: uploadURLsMu.Unlock().
Unlocked(holder) == "free"

\* getUploadURL, lines 80-87: pop under the mutex, unlock, return the URL
\* popped if there was one.
GetPop(p) ==
    /\ pc[p] = "uw_pop"
    /\ uploadURLsMu[bkt[p]] = p
    /\ uploadURLsMu' = [uploadURLsMu EXCEPT ![bkt[p]] = Unlocked(p)]
    /\ IF Len(uploadURLs[bkt[p]]) > 0
       THEN /\ uurl' = [uurl EXCEPT ![p] = PoolTop(uploadURLs[bkt[p]])]
            /\ uploadURLs' = [uploadURLs EXCEPT ![bkt[p]] = PoolAfterPop(@)]
            /\ pc' = [pc EXCEPT ![p] = "uw_send"]
       ELSE /\ pc' = [pc EXCEPT ![p] = "uw_req"]
            /\ UNCHANGED <<uurl, uploadURLs>>
    /\ UNCHANGED <<kind, bkt, r, body, sha1Sum, length, i, fi, err, sent,
                   reqCount, histVars, ghostVars>>
    /\ UNCHANGED notUpload

\* getUploadURL, lines 89-97: the b2_get_upload_url request and its answer.
\* The server hands out a new upload URL with each answer.
GetRequest(p, R, E) ==
    /\ pc[p] = "uw_req"
    /\ TotalRequests < R
    /\ reqCount' = [reqCount EXCEPT ![bkt[p]] = @ + 1]
    /\ \/ /\ uurl' = [uurl EXCEPT ![p] = [bucket |-> bkt[p], n |-> TotalRequests + 1]]
          /\ pc' = [pc EXCEPT ![p] = "uw_send"]
          /\ UNCHANGED <<fi, err, i, r, authFails, otherFails, failedOn, erroredOn>>
       \/ /\ \E e \in E :
                /\ MayFailWith(p, e)
                /\ AttemptReturns(p, NoFile, e)
          /\ UNCHANGED uurl
    /\ UNCHANGED <<kind, bkt, body, sha1Sum, length, sent, uploadURLs, uploadURLsMu,
                   attempts, logins, transfers, urlCalls, failedLeases>>
    /\ UNCHANGED notUpload

\* UploadWithSHA1, lines 139-147, a mutation: the FileInfo of an answer that
\* could not be decoded is returned with the error.
FileInfoOnErrorPartial(req, e) ==
    IF e = "EDecode" THEN FileInfoOf(req) ELSE NoFile
\* UploadWithSHA1, lines 139-147: "return nil, err".
FileInfoOnError(req, e) == NoFile

\* UploadWithSHA1, lines 124-148: the transfer request and its answer.  The
\* upload URL of a failed transfer is dropped.
Transfer(p, E) ==
    /\ pc[p] = "uw_send"
    /\ transfers' = [transfers EXCEPT ![p] = @ + 1]
    /\ sent' = [sent EXCEPT ![p] = [sha1 |-> sha1Sum[p], clen |-> length[p],
                                    bytes |-> BytesSent(body[p], length[p])]]
    /\ body' = [body EXCEPT ![p].pos = Len(body[p].data)]
    /\ \/ /\ WellFramed(body[p], length[p])      \* answered and decoded
          /\ pc' = [pc EXCEPT ![p] = "uw_putlock"]
          /\ UNCHANGED <<uurl, fi, err, i, r, authFails, otherFails,
                         failedLeases, failedOn, erroredOn>>
       \/ /\ \E e \in E :
                /\ MayFailWith(p, e)
                /\ ~WellFramed(body[p], length[p]) => e \in TransportErrors
                /\ AttemptReturns(p, FileInfoOnError(sent'[p], e), e)
          /\ uurl' = [uurl EXCEPT ![p] = NoLease]
          /\ failedLeases' = failedLeases \cup {uurl[p]}
    /\ UNCHANGED <<kind, bkt, sha1Sum, length, poolVars, attempts, logins,
                   urlCalls>>
    /\ UNCHANGED notUpload

\* putUploadURL, line 101: uploadURLsMu.Lock().
PutLock(p) ==
    /\ pc[p] = "uw_putlock"
    /\ uploadURLsMu[bkt[p]] = "free"
    /\ uploadURLsMu' = [uploadURLsMu EXCEPT ![bkt[p]] = p]
    /\ pc' = [pc EXCEPT ![p] = "uw_put"]
    /\ UNCHANGED <<procVars, uploadURLs, reqCount, histVars, ghostVars>>
    /\ UNCHANGED notUpload

\* putUploadURL, lines 102-103, and the return of UploadWithSHA1, line 150.
PutUploadURL(p) ==
    /\ pc[p] = "uw_put"
    /\ uploadURLsMu[bkt[p]] = p
    /\ uploadURLs' = [uploadURLs EXCEPT ![bkt[p]] = PoolAfterPut(@, uurl[p])]
    /\ uploadURLsMu' = [uploadURLsMu EXCEPT ![bkt[p]] = "free"]
    /\ uurl' = [uurl EXCEPT ![p] = NoLease]
    /\ AttemptReturns(p, FileInfoOf(sent[p]), NoErr)
    /\ UNCHANGED <<kind, bkt, body, sha1Sum, length, sent, reqCount, attempts,
                   logins, transfers, urlCalls, failedLeases>>
    /\ UNCHANGED notUpload

\* Upload, lines 65-68: the session refresh after status 401; i-- undoes the
\* i++ of the loop, so the turn is not counted.
Login(p) ==
    /\ pc[p] = "login"
    /\ logins' = [logins EXCEPT ![p] = @ + 1]
    /\ \/ /\ i' = [i EXCEPT ![p] = (@ - 1) + 1]
          /\ IF LoopContinues(i'[p])
             THEN /\ pc' = [pc EXCEPT ![p] = "seek"]
                  /\ UNCHANGED <<fi, err, r, erroredOn>>
             ELSE UploadReturns(p, fi[p], err[p])
       \/ /\ UploadReturns(p, NoFile, "ELogin")
          /\ UNCHANGED i
    /\ UNCHANGED <<kind, bkt, body, sha1Sum, length, uurl, sent, poolVars,
                   attempts, authFails, otherFails, transfers, urlCalls,
                   failedLeases, failedOn>>
    /\ UNCHANGED notUpload

Step(p, K, B, S, R, E) ==
    \/ \E b \in B, s \in S : "Upload" \in K /\ StartUpload(p, b, s)
    \/ \E b \in B, s \in PlainSources : "UploadWithSHA1" \in K /\ StartUploadWithSHA1(p, b, s)
    \/ HashBody(p)
    \/ SeekBody(p)
    \/ GetLock(p)
    \/ GetPop(p)
    \/ GetRequest(p, R, E)
    \/ Transfer(p, E)
    \/ PutLock(p)
    \/ PutUploadURL(p)
    \/ Login(p)

\* Concurrent calls on two buckets: one goroutine calls Upload and
\* UploadWithSHA1, the other UploadWithSHA1, each with a plain source.
Next ==
    \/ Step("p1", {"Upload", "UploadWithSHA1"}, Buckets, PlainSources, MaxRequests, FewErrors)
    \/ Step("p2", {"UploadWithSHA1"}, Buckets, PlainSources, MaxRequests, FewErrors)

Spec == Init /\ [][Next]_vars

\* One caller on one bucket, every shape of source.
NextSeq ==
    Step("p1", {"Upload", "UploadWithSHA1"}, {"b1"}, Sources, MaxRequests, FewErrors)

SpecSeq == Init /\ [][NextSeq]_vars

\* One caller on one bucket, a plain source, and a server that answers enough
\* requests for the retry budget to run out.
NextRetry ==
    Step("p1", {"Upload", "UploadWithSHA1"}, {"b1"}, PlainSources, MaxRetryRequests, AttemptErrors)

SpecRetry == Init /\ [][NextRetry]_vars

C2_AtMostFiveAttempts ==
    \A p \in Procs : kind[p] = "Upload" => attempts[p] <= RetryBudget

\* C2 amended: a call of Upload makes at most 5 attempts that fail with an
\* error other than status 401; an attempt that fails with status 401 is not
\* counted, so the attempts number at most 5 plus the 401 failures; Upload
\* returns the error of an attempt only when 5 attempts have failed otherwise,
\* and then without a FileInfo.
C2_BudgetCountsOtherFailures ==
    \A p \in Procs :
        kind[p] = "Upload" =>
            /\ otherFails[p] <= RetryBudget
            /\ i[p] = otherFails[p]
            /\ attempts[p] <= RetryBudget + authFails[p]
            /\ attempts[p] <= otherFails[p] + authFails[p] + 1
            /\ (pc[p] = "done" /\ err[p] \in AttemptErrors)
                  => (otherFails[p] = RetryBudget /\ err[p] # "E401" /\ fi[p] = NoFile)

C2_Witness ==
    \E p \in Procs :
        /\ kind[p] = "Upload" /\ pc[p] = "done"
        /\ otherFails[p] = RetryBudget /\ authFails[p] >= 1
        /\ attempts[p] > RetryBudget /\ err[p] = "E500"

\* C3: in Upload every attempt that failed with status 401 is followed by
\* exactly one session refresh before the next attempt starts: while the
\* refresh is pending there is one refresh less than 401 failures, otherwise
\* as many; a failed refresh ends the call with the refresh error, and an
\* attempt starts only when every 401 failure has had its successful refresh.
C3_OneRefreshPer401 ==
    /\ [](\A p \in Procs :
            kind[p] = "Upload" =>
                /\ logins[p] = IF pc[p] = "login" THEN authFails[p] - 1 ELSE authFails[p]
                /\ (pc[p] = "login" => err[p] = "E401")
                /\ (err[p] = "ELogin" => pc[p] = "done" /\ fi[p] = NoFile))
    /\ [][\A p \in Procs :
            (kind[p] = "Upload" /\ Active(p) /\ attempts'[p] = attempts[p] + 1)
                => /\ pc[p] = "seek"
                   /\ logins[p] = authFails[p]
                   /\ err[p] # "ELogin"]_vars

C3_Witness ==
    \E p \in Procs :
        /\ kind[p] = "Upload" /\ pc[p] = "uw_lock"
        /\ authFails[p] = 2 /\ logins[p] = 2 /\ attempts[p] = 3

PoolLeases(b) == {uploadURLs[b][k] : k \in 1..Len(uploadURLs[b])}
Held == {uurl[p] : p \in Procs} \ {NoLease}

\* C4: an upload URL enters the pool only in the step that ends a successful
\* attempt (answer received and decoded) of the call that used it, and then
\* once; an upload URL used by a failed attempt is in no pool and held by no
\* attempt ever after.
C4_PoolHoldsOnlySucceededLeases ==
    /\ [](/\ \A b \in Buckets : PoolLeases(b) \cap failedLeases = {}
          /\ Held \cap failedLeases = {}
          /\ \A b \in Buckets : Cardinality(PoolLeases(b)) = Len(uploadURLs[b])
          /\ \A p \in Procs : pc[p] \in {"uw_putlock", "uw_put"}
                => (transfers[p] = 1 /\ uurl[p] # NoLease))
    /\ [][\A b \in Buckets :
            Len(uploadURLs'[b]) > Len(uploadURLs[b])
                => \E p \in Procs :
                      /\ pc[p] = "uw_put" /\ bkt[p] = b
                      /\ uploadURLs'[b] = Append(uploadURLs[b], uurl[p])
                      /\ uurl'[p] = NoLease
                      /\ err'[p] = NoErr /\ fi'[p] = FileInfoOf(sent[p])]_vars

C4_Witness ==
    \E p \in Procs, b \in Buckets :
        /\ failedLeases # {} /\ NoLease \notin failedLeases
        /\ Len(uploadURLs[b]) = 1
        /\ pc[p] = "done" /\ bkt[p] = b /\ err[p] = NoErr /\ kind[p] = "Upload"
        /\ authFails[p] = 1

C7_LeasesAreExclusive ==
    /\ \A p \in Procs, q \in Procs :
          (p # q /\ uurl[p] # NoLease) => uurl[p] # uurl[q]
    /\ \A b \in Buckets : PoolLeases(b) \cap Held = {}
    /\ \A p \in Procs : pc[p] \in {"uw_send", "uw_putlock", "uw_put"} <=> uurl[p] # NoLease

\* Two attempts run on the same bucket at the same time, each on its own
\* upload URL, while the pool is empty.
C7_Witness ==
    \E p \in Procs, q \in Procs :
        /\ p # q /\ bkt[p] = bkt[q]
        /\ pc[p] = "uw_send" /\ pc[q] = "uw_send"
        /\ uurl[p].n = 1 /\ uurl[q].n = 2
        /\ kind[p] = "Upload" /\ kind[q] = "UploadWithSHA1"
        /\ uploadURLs[bkt[p]] = <<>>

\* getUploadURL asks the server in a step exactly when the pool was empty at
\* the pop, and a request is only counted in such a step.
RequestIffPoolEmpty ==
    /\ \A p \in Procs :
          (pc[p] = "uw_pop" /\ pc'[p] # "uw_pop")
              => /\ (pc'[p] = "uw_req" <=> uploadURLs[bkt[p]] = <<>>)
                 /\ (pc'[p] = "uw_send" <=> uploadURLs[bkt[p]] # <<>>)
                 /\ reqCount' = reqCount
    /\ \A p \in Procs :
          (pc'[p] = "uw_req" /\ pc[p] # "uw_req") => pc[p] = "uw_pop"
    /\ \A b \in Buckets :
          reqCount'[b] # reqCount[b]
              => /\ reqCount'[b] = reqCount[b] + 1
                 /\ \E p \in Procs : pc[p] = "uw_req" /\ bkt[p] = b /\ pc'[p] # "uw_req"

C8_HashAndLengthOfBytesSent ==
    \A p \in Procs :
        (kind[p] = "Upload" /\ sent[p] # NoReq)
            => /\ sent[p].sha1 = SHA1(sent[p].bytes)
               /\ sent[p].clen = Len(sent[p].bytes)

\* What the caller can still read from the source it handed in.
Unread(p) ==
    IF r[p].kind = "seeker"
    THEN Len(body[p].data) - body[p].pos
    ELSE Len(r[p].data) - r[p].off

\* C9: after a successful Upload nothing is left to read from the source: a
\* bytes.Buffer is empty, a plain reader is at its end, a seeker is at its end.
C9_SourceConsumedOnSuccess ==
    \A p \in Procs :
        (kind[p] = "Upload" /\ pc[p] = "done" /\ err[p] = NoErr)
            => /\ Unread(p) = 0
               /\ r[p].kind = "buffer" => Len(r[p].data) = 0
               /\ fi[p].ContentLength = Len(body[p].data)

C9_Witness ==
    \E p \in Procs :
        /\ kind[p] = "Upload" /\ pc[p] = "done" /\ err[p] = NoErr
        /\ r[p].kind = "seeker" /\ Len(body[p].data) = 2 /\ body[p].pos = 2
        /\ attempts[p] = 2

\* C10: a call of UploadWithSHA1 by the user calls getUploadURL once, so holds
\* at most one upload URL, issues at most one transfer request, refreshes the
\* session never, and has returned as soon as it has an error, status 401
\* included.
C10_SingleAttemptNoRetry ==
    \A p \in Procs :
        kind[p] = "UploadWithSHA1" =>
            /\ attempts[p] = 1
            /\ urlCalls[p] <= 1
            /\ transfers[p] <= 1
            /\ logins[p] = 0
            /\ pc[p] \notin {"login", "seek", "hash"}
            /\ pc[p] \in {"uw_pop", "uw_req", "uw_send", "uw_putlock", "uw_put", "done"}
                  => urlCalls[p] = 1
            /\ pc[p] \in {"uw_putlock", "uw_put"} => transfers[p] = 1
            /\ err[p] # NoErr => (pc[p] = "done" /\ fi[p] = NoFile /\ uurl[p] = NoLease)
            /\ (pc[p] = "done" /\ err[p] = NoErr) => (transfers[p] = 1 /\ fi[p] # NoFile)

C10_Witness ==
    \E p \in Procs :
        /\ kind[p] = "UploadWithSHA1" /\ pc[p] = "done" /\ err[p] = "E401"
        /\ transfers[p] = 1 /\ urlCalls[p] = 1 /\ logins[p] = 0


\* ------------------------------------------------------------ listing
\* file.go, line 385.
maxCount == 1000

\* The page size the server uses when it is asked for fewer than one file.
DefaultCount == 100

\* Values SetPageCount is called with.
PageCounts == {-1, 0, 1, 2, maxCount + 1}

\* The server's store.  Name n has two versions when n is odd and one when
\* it is even; the newer version has the greater ID and comes first.
VersionsOf(n) == IF n % 2 = 1 THEN 2 ELSE 1

RECURSIVE StoreUpTo(_)
StoreUpTo(n) ==
    IF n = 0 THEN <<>>
    ELSE StoreUpTo(n - 1) \o
         [k \in 1..VersionsOf(n) |->
             [fileName |-> n, fileId |-> 10 * n + VersionsOf(n) + 1 - k]]

Store == StoreUpTo(MaxNames)

\* b2_list_file_names lists the newest version of each name,
\* b2_list_file_versions every version.
Latest == SelectSeq(Store, LAMBDA o : o.fileId = 10 * o.fileName + VersionsOf(o.fileName))
Listed(endpoint) == IF endpoint = "b2_list_file_versions" THEN Store ELSE Latest

\* The records of seq from the start point (name, id) on; id 0 is no ID.
StartIndex(seq, name, id) ==
    LET hit(k) == \/ seq[k].fileName > name
                  \/ seq[k].fileName = name /\ (id = 0 \/ seq[k].fileId <= id)
        hits == {k \in 1..Len(seq) : hit(k)}
    IN  IF hits = {} THEN Len(seq) + 1
        ELSE CHOOSE k \in hits : \A j \in hits : k <= j

From(seq, name, id) == SubSeq(seq, StartIndex(seq, name, id), Len(seq))

\* ListOptions the caller passes.
ListOptionsSet ==
    [call : {"ListFiles", "ListFileVersions"}, FromName : 0..MaxNames,
     FromID : {0, 11}]

\* makeFileInfo, file.go lines 306-317.
makeFileInfo(o) == [ID |-> o.fileId, Name |-> o.fileName]
FileInfos(files) == [k \in 1..Len(files) |-> makeFileInfo(files[k])]

\* Next, lines 451-454, a mutation: the page is kept in the order received.
ReversedNot(s) == s
\* Next, lines 451-454: the page is stored in reverse order.
Reversed(s) == [k \in 1..Len(s) |-> s[Len(s) + 1 - k]]

\* Next, lines 403-405, a mutation: a recorded error does not stop Next.
HasFailedNever(x) == FALSE
\* Next, lines 403-405.
HasFailed(x) == x.err # NoErr

\* Next, lines 406-408, a mutation: the whole buffer is dropped.
DropCurrentAll(objs) == <<>>
\* Next, lines 406-408: the current record is dropped.
DropCurrent(objs) ==
    IF Len(objs) > 0 THEN SubSeq(objs, 1, Len(objs) - 1) ELSE objs

\* Next, line 456 (and 409), a mutation: Next reports a record in any case.
NonEmptyAlways(objs) == TRUE
\* Next, line 456 (and 409).
NonEmpty(objs) == Len(objs) > 0

\* Next, lines 412-414, a mutation: the end of the iteration is not seen.
AtEndNever(x) == FALSE
\* Next, lines 412-414: no next page.
AtEnd(x) == x.nextName.nil

\* Next, line 455: the cursor of the response replaces the stored one.
NextCursor(x, page) == <<page.NextFileName, page.NextFileID>>

\* FileInfo, lines 462-464.
FileInfo(x) == x.objects[Len(x.objects)]
\* Err, lines 467-469.
Err(x) == x.err

\* SetPageCount, lines 391-396.
ClampPageCount(n) == IF n > maxCount THEN maxCount ELSE n

\* ListFileVersions, line 499, a mutation: the options are not validated.
BadCursorNever(o) == FALSE
\* ListFileVersions, line 499.
BadCursor(o) == o.FromName = 0 /\ o.FromID # 0

\* Next, lines 416-434: the request for the next page.
ListRequest(x) ==
    [endpoint |-> IF x.versions THEN "b2_list_file_versions"
                  ELSE "b2_list_file_names",
     startFileName |-> x.nextName.v,
     startFileId |-> IF ~x.nextID.nil /\ x.nextID.v # 0 THEN x.nextID
                     ELSE NilPtr,
     maxFileCount |-> x.nextPageCount]

\* The pages the server may answer a request with: at most the page size of
\* the records from the start point on, and the position that follows them
\* (absent when none follows).
EffCount(n) == IF n < 1 THEN DefaultCount ELSE n

PageOf(avail, k, endpoint) ==
    [Files |-> SubSeq(avail, 1, k),
     NextFileName |-> IF k < Len(avail) THEN Ptr(avail[k + 1].fileName)
                      ELSE NilPtr,
     NextFileID |-> IF k < Len(avail) /\ endpoint = "b2_list_file_versions"
                    THEN Ptr(avail[k + 1].fileId) ELSE NilPtr]

Pages(req) ==
    LET avail == From(Listed(req.endpoint), req.startFileName,
                      IF req.startFileId.nil THEN 0 ELSE req.startFileId.v)
        full == Min(EffCount(req.maxFileCount), Len(avail))
    IN  {PageOf(avail, k, req.endpoint) : k \in 0..full}

\* The Listing x made from the options o, and its empty history.
FreshListing(x, o) ==
    /\ l' = x
    /\ opts' = o
    /\ op' = o.call
    /\ lastNext' = "none"
    /\ got' = NoFile
    /\ nreqs' = 0
    /\ lastReq' = NoReq
    /\ fetched' = <<>>
    /\ yielded' = <<>>
    /\ nfalse' = 0
    /\ ninfo' = 0

\* A new Listing starts a new history.
NewListing(x, o) ==
    /\ FreshListing(x, o)
    /\ UNCHANGED notListing

\* Bucket.ListFiles, lines 484-492.
ListFiles(o) ==
    /\ o.call = "ListFiles"
    /\ NewListing([NoListing EXCEPT !.nextName = Ptr(o.FromName)], o)

\* Bucket.ListFileVersions, lines 498-513.
ListFileVersions(o) ==
    /\ o.call = "ListFileVersions"
    /\ IF BadCursor(o)
       THEN NewListing([NoListing EXCEPT !.err = "EFromID"], o)
       ELSE NewListing([NoListing EXCEPT !.versions = TRUE,
                                         !.nextName = Ptr(o.FromName),
                                         !.nextID = Ptr(o.FromID)], o)

\* Listing.SetPageCount, lines 391-396.
SetPageCount(n) ==
    /\ opts # NoOpts
    /\ l' = [l EXCEPT !.nextPageCount = ClampPageCount(n)]
    /\ op' = "SetPageCount"
    /\ UNCHANGED <<opts, lastNext, got, nreqs, lastReq, fetched, yielded,
                   nfalse, ninfo>>
    /\ UNCHANGED notListing

\* Next returns b and leaves the Listing as x.
NextReturns(x, b) ==
    /\ l' = x
    /\ op' = "Next"
    /\ lastNext' = IF b THEN "true" ELSE "false"
    /\ nfalse' = IF b THEN nfalse ELSE nfalse + 1
    /\ yielded' = IF b /\ x.objects # <<>> THEN Append(yielded, FileInfo(x))
                  ELSE yielded
    /\ ninfo' = 0
    /\ UNCHANGED <<opts, got>>
    /\ UNCHANGED notListing

\* Listing.Next, lines 402-457.  The request, its answer and the decoding of
\* the answer are part of the call; E are the errors they may fail with.
ListingNext(E) ==
    /\ opts # NoOpts
    /\ nfalse < MaxFalse
    /\ IF HasFailed(l)
       THEN /\ NextReturns(l, FALSE)
            /\ UNCHANGED <<nreqs, lastReq, fetched>>
       ELSE LET objs == DropCurrent(l.objects)
                x == [l EXCEPT !.objects = objs]
            IN  IF NonEmpty(objs)
                THEN /\ NextReturns(x, TRUE)
                     /\ UNCHANGED <<nreqs, lastReq, fetched>>
                ELSE IF AtEnd(x)
                THEN /\ NextReturns(x, FALSE)
                     /\ UNCHANGED <<nreqs, lastReq, fetched>>
                ELSE /\ nreqs < MaxListRequests
                     /\ nreqs' = nreqs + 1
                     /\ lastReq' = ListRequest(x)
                     /\ \/ /\ \E e \in E :
                                NextReturns([x EXCEPT !.err = e], FALSE)
                           /\ UNCHANGED fetched
                        \/ \E page \in Pages(ListRequest(x)) :
                             LET fis == FileInfos(page.Files)
                                 y == [x EXCEPT
                                         !.objects = Reversed(fis),
                                         !.nextName = NextCursor(x, page)[1],
                                         !.nextID = NextCursor(x, page)[2]]
                             IN  /\ fetched' = fetched \o fis
                                 /\ NextReturns(y, NonEmpty(y.objects))

\* Listing.FileInfo, lines 462-464, called as its contract allows: after a
\* Next call that returned true.
ListingFileInfo ==
    /\ lastNext = "true"
    /\ ninfo < MaxInfo
    /\ got' = FileInfo(l)
    /\ ninfo' = ninfo + 1
    /\ op' = "FileInfo"
    /\ UNCHANGED <<l, opts, lastNext, nreqs, lastReq, fetched, yielded, nfalse>>
    /\ UNCHANGED notListing

\* One caller reads Listings of one bucket.
NextList ==
    \/ \E o \in ListOptionsSet : ListFiles(o)
    \/ \E o \in ListOptionsSet : ListFileVersions(o)
    \/ \E n \in PageCounts : SetPageCount(n)
    \/ ListingNext(AttemptErrors)
    \/ ListingFileInfo

SpecList == Init /\ [][NextList]_vars


\* ----------------------------------------------------- listing claims
Made == opts # NoOpts
IsPrefix(a, b) == Len(a) <= Len(b) /\ a = SubSeq(b, 1, Len(a))
Backwards(s) == [k \in 1..Len(s) |-> s[Len(s) + 1 - k]]

\* What the server lists from the start point of the options, whatever the
\* page size.
Expected ==
    IF opts.call = "ListFileVersions"
    THEN FileInfos(From(Store, opts.FromName, opts.FromID))
    ELSE FileInfos(From(Latest, opts.FromName, 0))

\* The records received and not yet made available.
Pending ==
    IF l.objects = <<>> THEN <<>>
    ELSE Backwards(SubSeq(l.objects, 1, Len(l.objects) - 1))

\* The last page has been received and Next has reported the end.
Exhausted ==
    Made /\ Err(l) = NoErr /\ l.nextName.nil /\ l.objects = <<>>
         /\ lastNext = "false"

\* C11: the records made available by successive Next calls are the records
\* of the pages received, in the order received, each once; they are the
\* first records the server lists from the start point, and all of them once
\* the Listing is exhausted, whatever the page sizes were.
C11_YieldsEveryRecordOnce ==
    /\ fetched = yielded \o Pending
    /\ IsPrefix(yielded, Expected)
    /\ Exhausted => yielded = Expected

C11_Witness ==
    /\ Exhausted
    /\ opts.call = "ListFileVersions" /\ opts.FromName = 0
    /\ nreqs >= 3
    /\ Len(yielded) >= 3

\* The last page (no NextFileName) has been received and at most its last
\* record is left in the buffer.
LastPageDrained ==
    Made /\ Err(l) = NoErr /\ l.nextName.nil /\ Len(l.objects) <= 1

\* C12: once the page without NextFileName is received and its records are
\* all made available, every Next call returns false, leaves Err() nil and
\* sends no request.
C12_ExhaustedIsTerminal ==
    [][LastPageDrained /\ op' = "Next"
         => /\ lastNext' = "false"
            /\ Err(l') = NoErr
            /\ nreqs' = nreqs
            /\ LastPageDrained']_vars

C12_Witness ==
    Exhausted /\ nfalse = MaxFalse /\ Len(yielded) >= 2 /\ nreqs >= 2

\* C13: a Next call whose request or decoding fails returns false and
\* records the error; every later Next call returns false, changes nothing
\* of the Listing and sends no request.
C13_FailedIsTerminal ==
    [][op' = "Next"
         => /\ (Err(l) # NoErr
                  => lastNext' = "false" /\ l' = l /\ nreqs' = nreqs)
            /\ (Err(l) = NoErr /\ Err(l') # NoErr
                  => /\ lastNext' = "false"
                     /\ Err(l') \in AttemptErrors
                     /\ nreqs' = nreqs + 1
                     /\ l'.objects = <<>>)]_vars

C13_Witness ==
    /\ Err(l) \in AttemptErrors
    /\ lastNext = "false" /\ nfalse = MaxFalse
    /\ nreqs >= 2
    /\ yielded # <<>>

\* C14: a Listing made by ListFileVersions with FromID set and FromName
\* empty has an error from the start, never has Next return true and never
\* has a request sent.
C14_FromIDNeedsFromName ==
    opts.call = "ListFileVersions" /\ opts.FromName = 0 /\ opts.FromID # 0
        => Err(l) # NoErr /\ lastNext # "true" /\ nreqs = 0

C14_Witness ==
    /\ opts.call = "ListFileVersions" /\ opts.FromName = 0 /\ opts.FromID # 0
    /\ lastNext = "false" /\ nfalse = MaxFalse
    /\ Err(l) # NoErr /\ nreqs = 0

\* C15 as stated: every list request carries a page size in 1..1000.
C15_PageSizeInRange ==
    nreqs > 0 => lastReq.maxFileCount \in 1..maxCount

\* C16: after Next has returned true Err() is nil and the buffer holds a
\* record; FileInfo returns that record, the one Next made available,
\* however often it is called, and changes nothing of the Listing.
C16_TrueMeansRecord ==
    /\ [](lastNext = "true" => Err(l) = NoErr /\ l.objects # <<>>)
    /\ [][op' = "FileInfo"
            => /\ l' = l
               /\ lastNext' = lastNext
               /\ yielded' = yielded
               /\ got' = yielded[Len(yielded)]]_vars

C16_Witness ==
    /\ lastNext = "true" /\ op = "FileInfo" /\ ninfo = MaxInfo
    /\ Len(yielded) >= 2
    /\ got = yielded[Len(yielded)]


\* ----------------------------------------------------------- download
\* DownloadOptions the caller passes: identifiers empty (0) or set, and
\* every Range with both ends in -1..MaxOff.
DownloadOptionsSet ==
    [FileID : {0, 1}, Bucket : {0, 1}, FileName : {0, 1},
     Range : [Begin : -1..MaxOff, End : -1..MaxOff]]

\* Errors DownloadFile returns before any request.
ValidationErrors == {"ENoTarget", "ENoBucket", "ERangeEnd"}

\* DownloadFile, lines 60-70, a mutation: the identifiers are not checked.
ValidationErrorNone(opt) == NoErr
\* DownloadFile, lines 60-70: the switch over the identifiers.
ValidationError(opt) ==
    IF opt.FileID # 0 THEN NoErr
    ELSE IF opt.FileName # 0
    THEN IF opt.Bucket = 0 THEN "ENoBucket" ELSE NoErr
    ELSE "ENoTarget"

\* DownloadFile, lines 63-69: the URL, by ID when FileID is set.
URLOf(opt) ==
    IF opt.FileID # 0 THEN [by |-> "id", fileId |-> opt.FileID]
    ELSE [by |-> "name", bucket |-> opt.Bucket, file |-> opt.FileName]

\* DownloadFile, line 72.
RangeRequested(rg) == rg.Begin > 0 \/ rg.End > 0

\* DownloadFile, lines 76-78.
RangeError(rg) ==
    IF RangeRequested(rg) /\ rg.End < 1 THEN "ERangeEnd" ELSE NoErr

\* DownloadFile, lines 73-79, a mutation: End is taken as exclusive.
RangeHeaderHalfOpen(rg) ==
    <<"bytes=", IF rg.Begin < 0 THEN 0 ELSE rg.Begin, "-", rg.End - 1>>
\* DownloadFile, lines 73-79: "bytes=%d-%d" of Begin (raised to 0) and End.
RangeHeader(rg) ==
    <<"bytes=", IF rg.Begin < 0 THEN 0 ELSE rg.Begin, "-", rg.End>>

\* DownloadFile, lines 71-80: the empty string when no range is requested.
RangeString(rg) == IF RangeRequested(rg) THEN RangeHeader(rg) ELSE <<>>

\* The offsets a server serves for a Range header "bytes=a-b": a to b, both
\* included.
RangeOffsets(h) == h[2]..h[4]

\* getWithAuth, line 23, a mutation: every error leads to a refresh.
ShouldRefreshAlways(e) == e # NoErr
\* getWithAuth, line 23.
ShouldRefresh(e) == UnwrapError(e) /\ Status(e) = StatusUnauthorized

\* A download call starts: its history is reset.
StartDownload(call, opt, u, h, e) ==
    /\ dpc \in {"idle", "done"}
    /\ dcall' = call
    /\ dopts' = opt
    /\ U' = u
    /\ rs' = h
    /\ gets' = <<>>
    /\ refreshes' = 0
    /\ first' = "none"
    /\ refreshed' = "none"
    /\ second' = "none"
    /\ derr' = e
    /\ dpc' = IF e = NoErr THEN "get" ELSE "done"
    /\ UNCHANGED notDownload

\* Client.DownloadFile, lines 57-81, up to the call of getWithAuth.
DownloadFile(opt) ==
    IF ValidationError(opt) # NoErr
    THEN StartDownload("DownloadFile", opt, NoURL, <<>>, ValidationError(opt))
    ELSE IF RangeError(opt.Range) # NoErr
    THEN StartDownload("DownloadFile", opt, URLOf(opt), <<>>,
                       RangeError(opt.Range))
    ELSE StartDownload("DownloadFile", opt, URLOf(opt),
                       RangeString(opt.Range), NoErr)

\* Client.DownloadFileByID, lines 97-100.
DownloadFileByID(id) ==
    StartDownload("DownloadFileByID", [NoDownload EXCEPT !.FileID = id],
                  [by |-> "id", fileId |-> id], <<>>, NoErr)

\* Client.DownloadFileByName, lines 116-119.
DownloadFileByName(b, f) ==
    StartDownload("DownloadFileByName",
                  [NoDownload EXCEPT !.Bucket = b, !.FileName = f],
                  [by |-> "name", bucket |-> b, file |-> f], <<>>, NoErr)

\* The call returns what a GET gave: its error, or the body with the
\* FileInfo of the headers (parseFileInfoHeaders, which may fail).
DownloadReturns(e) ==
    /\ dpc' = "done"
    /\ IF e = NoErr THEN derr' \in {NoErr, "EHeader"} ELSE derr' = e

\* getWithAuth, lines 15-23 and 32: the first GET, with the Range header
\* when one was built.
GetFirst(E) ==
    /\ dpc = "get"
    /\ gets' = Append(gets, [U |-> U, Range |-> rs])
    /\ \E e \in E \cup {NoErr} :
         /\ first' = e
         /\ IF ShouldRefresh(e)
            THEN dpc' = "login" /\ derr' = derr
            ELSE DownloadReturns(e)
    /\ UNCHANGED <<dcall, dopts, U, rs, refreshes, refreshed, second>>
    /\ UNCHANGED notDownload

\* getWithAuth, lines 24 and 32: the session refresh; when it fails its
\* error is returned.
DownloadLogin ==
    /\ dpc = "login"
    /\ refreshes' = refreshes + 1
    /\ \E e \in {NoErr, "ELogin"} :
         /\ refreshed' = e
         /\ IF e = NoErr
            THEN dpc' = "retry" /\ derr' = derr
            ELSE dpc' = "done" /\ derr' = e
    /\ UNCHANGED <<dcall, dopts, U, rs, gets, first, second>>
    /\ UNCHANGED notDownload

\* getWithAuth, lines 25-29: the second GET, a new request for the same URL
\* on which no Range header is set; its outcome is returned.
GetRetry(E) ==
    /\ dpc = "retry"
    /\ gets' = Append(gets, [U |-> U, Range |-> <<>>])
    /\ \E e \in E \cup {NoErr} :
         /\ second' = e
         /\ DownloadReturns(e)
    /\ UNCHANGED <<dcall, dopts, U, rs, refreshes, first, refreshed>>
    /\ UNCHANGED notDownload

\* One caller makes downloads, one after the other.
NextDownload ==
    \/ \E opt \in DownloadOptionsSet : DownloadFile(opt)
    \/ \E id \in {0, 1} : DownloadFileByID(id)
    \/ \E b \in {0, 1}, f \in {0, 1} : DownloadFileByName(b, f)
    \/ GetFirst(RequestErrors)
    \/ DownloadLogin
    \/ GetRetry(RequestErrors)

SpecDownload == Init /\ [][NextDownload]_vars

\* ---------------------------------------------------- download claims
\* The call has returned what the GET with outcome e gave.
ReturnedAsIs(e) ==
    IF e = NoErr THEN derr \in {NoErr, "EHeader"} ELSE derr = e

\* C17 as stated: a first 401 is followed by one refresh and one retry whose
\* outcome is returned; any other outcome by no refresh and no retry; never
\* more than 2 GETs or 1 refresh.
C17_RefreshAndRetryOn401 ==
    /\ Len(gets) <= 2 /\ refreshes <= 1
    /\ first \notin {"none", "E401"} => refreshes = 0 /\ Len(gets) = 1
    /\ dpc = "done" /\ first = "E401"
         => refreshes = 1 /\ Len(gets) = 2 /\ ReturnedAsIs(second)

\* C17: a first 401 is followed by exactly one refresh; when the refresh
\* succeeds exactly one retry follows and its outcome is returned as it is,
\* a second 401 included; when the refresh fails no retry is sent and the
\* error of the refresh is returned.  Any other first outcome is returned
\* with no refresh and no retry.  No call sends more than 2 GETs or makes
\* more than 1 refresh.
C17_RetryOnceAfterRefreshSucceeds ==
    /\ Len(gets) <= 2 /\ refreshes <= 1
    /\ first \notin {"none", "E401"}
         => refreshes = 0 /\ Len(gets) = 1 /\ dpc = "done"
              /\ ReturnedAsIs(first)
    /\ dpc = "done" /\ first = "E401"
         => /\ refreshes = 1
            /\ IF refreshed = NoErr
               THEN Len(gets) = 2 /\ second # "none" /\ ReturnedAsIs(second)
               ELSE Len(gets) = 1 /\ second = "none" /\ derr = refreshed

C17_Witness ==
    /\ dpc = "done" /\ dcall = "DownloadFileByID"
    /\ first = "E401" /\ refreshed = NoErr /\ second = "E401"
    /\ derr = "E401" /\ Len(gets) = 2 /\ refreshes = 1

\* C18: for a Range with 0 <= Begin <= End and End >= 1 the first GET of
\* DownloadFile carries "bytes=Begin-End", which asks for the End-Begin+1
\* offsets Begin..End; for Range{0,0} it carries no Range header.
C18_InclusiveRange ==
    dcall = "DownloadFile" /\ gets # <<>>
        => LET rg == dopts.Range
               h == gets[1].Range
           IN  /\ 0 <= rg.Begin /\ rg.Begin <= rg.End /\ rg.End >= 1
                    => /\ h = <<"bytes=", rg.Begin, "-", rg.End>>
                       /\ RangeOffsets(h) = rg.Begin..rg.End
                       /\ Cardinality(RangeOffsets(h)) = rg.End - rg.Begin + 1
               /\ rg.Begin = 0 /\ rg.End = 0 => h = <<>>

C18_Witness ==
    /\ dcall = "DownloadFile" /\ dpc = "done" /\ derr = NoErr
    /\ dopts.Range = [Begin |-> 2, End |-> 3]
    /\ Len(gets) = 1
    /\ RangeOffsets(gets[1].Range) = {2, 3}

\* C19 as stated: DownloadFile with neither FileID nor FileName, or with
\* FileName and an empty Bucket, returns a validation error with no request
\* and no refresh.
C19_MissingIdentifiers ==
    /\ dcall = "DownloadFile"
    /\ \/ dopts.FileID = 0 /\ dopts.FileName = 0
       \/ dopts.FileName # 0 /\ dopts.Bucket = 0
    => /\ dpc = "done" /\ derr \in ValidationErrors
       /\ gets = <<>> /\ refreshes = 0

\* C19: DownloadFile with neither FileID nor FileName, or with no FileID, a
\* FileName and an empty Bucket, returns a validation error with no request
\* and no refresh.
C19_MissingIdentifiersWithoutFileID ==
    /\ dcall = "DownloadFile"
    /\ dopts.FileID = 0
    /\ dopts.FileName = 0 \/ dopts.Bucket = 0
    => /\ dpc = "done" /\ derr \in {"ENoTarget", "ENoBucket"}
       /\ gets = <<>> /\ refreshes = 0

C19_Witness ==
    /\ dcall = "DownloadFile" /\ dpc = "done"
    /\ dopts.FileID = 0 /\ dopts.FileName = 1 /\ dopts.Bucket = 0
    /\ derr = "ENoBucket" /\ gets = <<>>

\* A range is requested and its End is below 1 or below its Begin.
Malformed(rg) ==
    (rg.Begin > 0 \/ rg.End > 0) /\ (rg.End < 1 \/ rg.End < rg.Begin)

\* C20 as stated: DownloadFile with a malformed range returns a validation
\* error and sends no request.
C20_MalformedRangeRejected ==
    dcall = "DownloadFile" /\ Malformed(dopts.Range)
        => dpc = "done" /\ derr \in ValidationErrors /\ gets = <<>>


\* ------------------------------------------------- GetFileInfoByName
\* Names GetFileInfoByName is called with: the empty name, the names the
\* server holds and one it does not hold.
InfoNames == 0..(MaxNames + 1)

\* GetFileInfoByName, line 347, a mutation: the name is not compared.
SameNameAlways(f, name) == TRUE
\* GetFileInfoByName, line 347.
SameName(f, name) == f.Name = name

\* GetFileInfoByName, lines 343-345: ListFiles from the name and
\* SetPageCount(1).
GetFileInfoByName(name) ==
    /\ gpc \in {"idle", "done"}
    /\ FreshListing([NoListing EXCEPT !.nextName = Ptr(name),
                                      !.nextPageCount = ClampPageCount(1)],
                    [call |-> "ListFiles", FromName |-> name, FromID |-> 0])
    /\ gpc' = "called"
    /\ gname' = name
    /\ UNCHANGED <<gfi, gerr>>
    /\ UNCHANGED <<uploadVars, dlVars, sessVars>>

\* GetFileInfoByName, line 346: the one call of Next.
GetFileInfoNext(E) ==
    /\ gpc = "called"
    /\ lastNext = "none"
    /\ ListingNext(E)

\* GetFileInfoByName, lines 346-354: the record when Next returned true and
\* the name is the one asked for, else the error of the Listing, else
\* ErrFileNotFound.
GetFileInfoReturns ==
    /\ gpc = "called"
    /\ lastNext # "none"
    /\ gpc' = "done"
    /\ IF lastNext = "true" /\ SameName(FileInfo(l), gname)
       THEN gfi' = FileInfo(l) /\ gerr' = NoErr
       ELSE IF Err(l) # NoErr
       THEN gfi' = NoFile /\ gerr' = Err(l)
       ELSE gfi' = NoFile /\ gerr' = "ErrFileNotFound"
    /\ UNCHANGED gname
    /\ UNCHANGED <<uploadVars, listVars, dlVars, sessVars>>

\* One caller asks for files by name, one call after the other.
NextInfo ==
    \/ \E name \in InfoNames : GetFileInfoByName(name)
    \/ GetFileInfoNext(AttemptErrors)
    \/ GetFileInfoReturns

SpecInfo == Init /\ [][NextInfo]_vars

\* C21: a GetFileInfoByName call sends exactly one list request, for file
\* names from the requested name with page size 1; it returns the first
\* record of the answer exactly when that record has the requested name,
\* the error of the listing when the listing failed, and ErrFileNotFound
\* when the listing succeeded without such a record.
C21_OneRequestFirstRecordOrNotFound ==
    /\ gpc = "called" => nreqs <= 1
    /\ gpc = "done"
         => /\ nreqs = 1
            /\ lastReq = [endpoint |-> "b2_list_file_names",
                          startFileName |-> gname,
                          startFileId |-> NilPtr,
                          maxFileCount |-> 1]
            /\ LET hit == fetched # <<>> /\ fetched[1].Name = gname
               IN  /\ hit => gfi = fetched[1] /\ gerr = NoErr
                   /\ ~hit /\ Err(l) = NoErr
                        => gfi = NoFile /\ gerr = "ErrFileNotFound"
                   /\ Err(l) # NoErr => gfi = NoFile /\ gerr = Err(l)

C21_Witness ==
    /\ gpc = "done" /\ gname = 0
    /\ fetched # <<>> /\ fetched[1].Name # gname
    /\ gfi = NoFile /\ gerr = "ErrFileNotFound"


\* ------------------------------------------------ more upload claims
\* C22: a call of Upload or UploadWithSHA1 that has returned has a FileInfo
\* exactly when its error is nil; on every error path the FileInfo is nil.
C22_FileInfoIffNoError ==
    \A p \in Procs :
        pc[p] = "done" => (fi[p] # NoFile <=> err[p] = NoErr)

C22_Witness ==
    /\ pc["p1"] = "done" /\ kind["p1"] = "Upload"
    /\ err["p1"] = "EDecode" /\ fi["p1"] = NoFile
    /\ sent["p1"] # NoReq
    /\ otherFails["p1"] = RetryBudget

\* C24: a process holds the mutex of a bucket only between the Lock and the
\* Unlock around the pop or the push, never while its b2_get_upload_url
\* request or its transfer is in flight.
C24_MutexOnlyAroundPushPop ==
    \A p \in Procs :
        /\ \A b \in Buckets :
             uploadURLsMu[b] = p
                => bkt[p] = b /\ pc[p] \in {"uw_pop", "uw_put"}
        /\ pc[p] \in {"uw_req", "uw_send"}
             => \A b \in Buckets : uploadURLsMu[b] # p

C24_Witness ==
    /\ pc["p1"] = "uw_send" /\ bkt["p1"] = "b1"
    /\ pc["p2"] = "uw_pop" /\ bkt["p2"] = "b1"
    /\ uploadURLsMu["b1"] = "p2"


\* ------------------------------------------------ more listing claims
\* C25: a list request is sent only by a Next call made when no error is
\* recorded, every record received has been made available (at most the
\* current record is in the buffer) and a next start name is stored; a Next
\* call sends at most one request.
C25_FetchOnlyWhenDrained ==
    [][nreqs' > nreqs
         => /\ op' = "Next"
            /\ nreqs' = nreqs + 1
            /\ Err(l) = NoErr
            /\ Len(l.objects) <= 1
            /\ fetched = yielded
            /\ ~l.nextName.nil]_vars

C25_Witness ==
    /\ op = "Next" /\ lastNext = "true"
    /\ l.nextPageCount = 2
    /\ nreqs = 2
    /\ Len(yielded) = 3 /\ Len(fetched) = 3

\* C26 as stated: after Next has returned false on a Listing, every later
\* Next call on it returns false.
C26_FalseIsFinal ==
    [][lastNext = "false" /\ op' = "Next" => lastNext' = "false"]_vars

\* ------------------------------------------------ more download claims
\* C27 as stated: every GET of a DownloadFile call carries the Range header
\* the call has built, the retry after a 401 included.
C27_RetryCarriesRange ==
    dcall = "DownloadFile"
        => \A k \in 1..Len(gets) : gets[k].Range = rs


\* ------------------------------------------------------------ session
\* loginInfo.Load(), download.go line 58: the whole snapshot in one step.
Loaded(snapshot) == snapshot

\* A refresh that writes the fields of the snapshot in place, the token
\* first.
StoredTokenFirst(old, new) ==
    [old EXCEPT !.AuthorizationToken = new.AuthorizationToken]
\* A refresh installs the LoginInfo it has built in place of the old one.
Stored(old, new) == new

\* A process reads the session, as DownloadFile does at line 58.
LoadSession(p) ==
    /\ seen' = [seen EXCEPT ![p] = Loaded(loginInfo)]
    /\ UNCHANGED <<loginInfo, auths, spc, resp>>
    /\ UNCHANGED notSession

\* A refresh authenticates and builds a LoginInfo from the answer.
Authenticate(p) ==
    /\ spc[p] = "idle"
    /\ auths < MaxAuths
    /\ auths' = auths + 1
    /\ resp' = [resp EXCEPT ![p] = LoginInfoOf(auths + 1)]
    /\ spc' = [spc EXCEPT ![p] = "store"]
    /\ UNCHANGED <<loginInfo, seen>>
    /\ UNCHANGED notSession

\* The refresh stores the LoginInfo it has built.
StoreSession(p) ==
    /\ spc[p] = "store"
    /\ loginInfo' = Stored(loginInfo, resp[p])
    /\ spc' = [spc EXCEPT ![p] = "idle"]
    /\ UNCHANGED <<auths, resp, seen>>
    /\ UNCHANGED notSession

\* Two processes refresh and read the session concurrently.
NextSession ==
    \E p \in Procs :
        \/ LoadSession(p)
        \/ Authenticate(p)
        \/ StoreSession(p)

SpecSession == Init /\ [][NextSession]_vars

\* The token and the URLs of a snapshot come from one authentication.
OfOneRefresh(snapshot) ==
    /\ snapshot.AuthorizationToken = snapshot.APIURL
    /\ snapshot.APIURL = snapshot.DownloadURL

\* C23: under every interleaving of refreshes and reads, the snapshot in
\* force and every snapshot a process has loaded hold the token and the URLs
\* of one authentication.
C23_SnapshotOfOneRefresh ==
    /\ OfOneRefresh(loginInfo)
    /\ \A p \in Procs : OfOneRefresh(seen[p])

C23_Witness ==
    /\ seen["p1"] = LoginInfoOf(2)
    /\ loginInfo = LoginInfoOf(1)
    /\ spc["p1"] = "store" /\ resp["p1"] = LoginInfoOf(3)
====
